---- MODULE Spec2Model ----
(***************************************************************************)
(* A model of the wordle solver: the constraint state Game (lib.rs), its   *)
(* update Game::guess, the predicates is_possible and is_revealing, the    *)
(* minimax search best_guess with its parallel reduction, and the play     *)
(* loop of main.rs.                                                        *)
(*                                                                         *)
(* A letter is a one-character string; a Word is a 5-tuple of letters,     *)
(* positions are counted from 0 as in the source (At(w, i) is w.0[i]).     *)
(* A BitField (u8) is the set of the indices of its set bits.              *)
(***************************************************************************)
EXTENDS Integers, Sequences, FiniteSets

\* ------------------------------------------------------------------ bounds
\* Number of lines of the word file read for the Game API exploration (Spec).
NumWords == 11
\* Cap on Game::guess calls in the API exploration (Spec).
MaxGuesses == 3
\* Number of lines of the guess word file in the search and play models.
NumPlayWords == 6
\* Cap on Game::guess calls made before the search starts (SpecSearch).
MaxSearchGuesses == 1
\* Cap on the turn counter in the play loop (SpecPlay).
MaxTurns == 8

\* ------------------------------------------------------------------ words
WordLen == 5
NumLetters == 26
Positions == 0 .. (WordLen - 1)

Alpha ==
  << "a", "b", "c", "d", "e", "f", "g", "h", "i", "j", "k", "l", "m",
     "n", "o", "p", "q", "r", "s", "t", "u", "v", "w", "x", "y", "z" >>

Letters == { Alpha[k] : k \in 1 .. NumLetters }

\* idx = (c - b'a'): the index of a letter in the chars array.
idx(c) == (CHOOSE k \in 1 .. NumLetters : Alpha[k] = c) - 1

\* The ascii byte of a letter ('a' is 97).
byte(c) == 97 + idx(c)

\* w.0[i]
At(w, i) == w[i + 1]

\* answer.0.contains(&c)
contains(w, c) == \E i \in Positions : At(w, i) = c

Range(s) == { s[k] : k \in 1 .. Len(s) }

\* The element of a one-element set. { e(v) : v \in {x} } is e(x) with x evaluated
\* once: the loops below carry their state from round to round this way.
TheOne(S) == CHOOSE v \in S : TRUE

\* The derived Ord of Word: byte-wise lexicographic order of the 5 bytes.
WordLess(u, v) ==
  \E i \in Positions :
    /\ \A j \in 0 .. (i - 1) : At(u, j) = At(v, j)
    /\ idx(At(u, i)) < idx(At(v, i))

\* A line is kept only if it has 5 characters, all ascii lowercase.
valid_line(line) ==
  /\ Len(line) = WordLen
  /\ \A k \in 1 .. Len(line) : line[k] \in Letters

RECURSIVE insert_sorted(_, _)
insert_sorted(s, w) ==
  IF s = << >> THEN << w >>
  ELSE IF WordLess(w, Head(s)) THEN << w >> \o s
  ELSE << Head(s) >> \o insert_sorted(Tail(s), w)

RECURSIVE sort_words(_)
sort_words(s) ==
  IF s = << >> THEN << >>
  ELSE insert_sorted(sort_words(SubSeq(s, 1, Len(s) - 1)), s[Len(s)])

\* read_wordlist: the valid lines of the file, sorted.
read_wordlist(lines) ==
  sort_words(SelectSeq(lines, valid_line))

\* The lines of the word file of the API exploration; the first NumWords are read.
\* The file holds lines read_wordlist skips: an empty one, a capitalised one, a
\* short one.
FileLines ==
  << <<"c","r","a","n","e">>,
     << >>,
     <<"t","r","a","c","e">>,
     <<"E","m","a","i","l">>,
     <<"t","r","a","c","t">>,
     <<"o","x">>,
     <<"e","m","a","i","l">>,
     <<"g","e","e","s","e">>,
     <<"s","t","e","e","l">>,
     <<"c","a","r","e","t">>,
     <<"c","a","t","e","r">>,
     <<"l","e","a","s","t">>,
     <<"e","e","r","i","e">> >>

Words == read_wordlist(SubSeq(FileLines, 1, NumWords))

\* ------------------------------------------------------------------ BitField
BitField_get(b, i) == i \in b

BitField_set(b, i) == b \cup {i}

\* Bitwise or of two bytes (position_packed |= byte << (i * 8)).
RECURSIVE BitOr(_, _)
BitOr(x, y) ==
  IF x = 0 THEN y
  ELSE IF y = 0 THEN x
  ELSE (IF x % 2 = 1 \/ y % 2 = 1 THEN 1 ELSE 0) + 2 * BitOr(x \div 2, y \div 2)

\* ------------------------------------------------------------------ CharInfo
\* neg: bits 0-4 the fields that do NOT have the char, bit 7 the char is out.
\* pos: bits 0-4 the fields that DO have the char, bit 7 the char is in.
UNKNOWN == [neg |-> {}, pos |-> {}]

is_in(info) == BitField_get(info.pos, 7)

is_out(info) == BitField_get(info.neg, 7)

set_in(info) == [info EXCEPT !.pos = BitField_set(@, 7)]

\* set_out with the bit set in the wrong field.
set_out_in_pos(info) == [info EXCEPT !.pos = BitField_set(@, 7)]

set_out(info) == [info EXCEPT !.neg = BitField_set(@, 7)]

negs(info) == Cardinality({ i \in Positions : BitField_get(info.neg, i) })

\* deduce that waits for all 5 positions to be excluded.
deduce_five(info) ==
  IF is_in(info) /\ negs(info) = 5
  THEN [info EXCEPT !.pos = @ \cup { i \in Positions : ~BitField_get(info.neg, i) }]
  ELSE info

deduce(info) ==
  IF is_in(info) /\ negs(info) = 4
  THEN [info EXCEPT !.pos = @ \cup { i \in Positions : ~BitField_get(info.neg, i) }]
  ELSE info

\* ------------------------------------------------------------------ Game
\* Option::None of a letter, and of a word.
None == "None"

NoWord == << >>

\* asserts_ok is not a field of the struct: it records that no debug_assert! of
\* set_in / set_out has failed on this value (a debug build panics when one fails,
\* a release build goes on).
new ==
  [ positions       |-> [i \in Positions |-> None],
    position_mask   |-> {},
    position_packed |-> [i \in Positions |-> 0],
    chars           |-> [c \in Letters |-> UNKNOWN],
    guesses         |-> 0,
    asserts_ok      |-> TRUE ]

\* The green check of is_possible (debug path).
green_good(g, w) ==
  \A i \in Positions : g.positions[i] # None => At(w, i) = g.positions[i]

\* pcmpeqb of the packed word against position_packed, masked by position_mask.
is_possible_simd_green(g, w) ==
  \A i \in Positions :
    BitField_get(g.position_mask, i) => g.position_packed[i] = byte(At(w, i))

\* The grey check refusing a letter with any position excluded.
no_bad_any_position(g, w) ==
  \A i \in Positions :
    ~(is_out(g.chars[At(w, i)]) \/ g.chars[At(w, i)].neg # {})

\* The grey check of is_possible (debug path).
no_bad(g, w) ==
  \A i \in Positions :
    ~(is_out(g.chars[At(w, i)]) \/ BitField_get(g.chars[At(w, i)].neg, i))

\* The gather over the first four chars, then the fifth char by itself.
is_possible_simd_no_bad(g, w) ==
  /\ \A i \in 0 .. 3 : ~BitField_get(g.chars[At(w, i)].neg, 7)
  /\ \A i \in 0 .. 3 : ~BitField_get(g.chars[At(w, i)].neg, i)
  /\ ~(is_out(g.chars[At(w, 4)]) \/ BitField_get(g.chars[At(w, 4)].neg, 4))

\* The yellow check left out.
has_yellow_unchecked(g, w) == TRUE

\* The yellow check of is_possible.
has_yellow(g, w) ==
  \A c \in Letters : is_in(g.chars[c]) => contains(w, c)

is_possible(g, w) ==
  /\ green_good(g, w)
  /\ no_bad(g, w)
  /\ has_yellow(g, w)

\* The release build takes the simd paths instead of the scalar ones.
is_possible_release(g, w) ==
  /\ is_possible_simd_green(g, w)
  /\ is_possible_simd_no_bad(g, w)
  /\ has_yellow(g, w)

\* is_revealing that counts only letters not yet known to be in or out.
is_revealing_unknown_letters(g, w) ==
  \E i \in Positions :
    LET info == g.chars[At(w, i)] IN ~is_out(info) /\ ~is_in(info)

\* is_revealing that takes a position for known once any position of the letter is.
is_revealing_any_position(g, w) ==
  \E i \in Positions :
    LET info == g.chars[At(w, i)] IN
      /\ ~is_out(info)
      /\ \/ ~is_in(info)
         \/ (info.neg \cup info.pos) \cap Positions = {}

is_revealing(g, w) ==
  \E i \in Positions :
    LET info == g.chars[At(w, i)] IN
      /\ ~is_out(info)
      /\ \/ ~is_in(info)
         \/ ~BitField_get(info.neg, i) /\ ~BitField_get(info.pos, i)

\* guess_position assigning the excluded position (=) instead of or-ing it in (|=).
guess_position_assign(g, answer, w, i) ==
  LET c     == At(w, i)
      info0 == g.chars[c]
      hit   == At(w, i) = At(answer, i)
      info1 == IF hit
               THEN [set_in(info0) EXCEPT !.pos = BitField_set(@, i)]
               ELSE [info0 EXCEPT !.neg = {i}]
      there == contains(answer, c)
      info2 == IF there THEN set_in(info1) ELSE set_out(info1)
  IN  [ g EXCEPT
          !.positions       = IF hit THEN [@ EXCEPT ![i] = c] ELSE @,
          !.position_mask   = IF hit THEN BitField_set(@, i) ELSE @,
          !.position_packed = IF hit THEN [@ EXCEPT ![i] = BitOr(@, byte(c))] ELSE @,
          !.chars           = [@ EXCEPT ![c] = info2] ]

\* One round of the first loop of Game::guess: position i of the guess.
guess_position(g, answer, w, i) ==
  LET c     == At(w, i)
      info0 == g.chars[c]
      hit   == At(w, i) = At(answer, i)
      info1 == IF hit
               THEN [set_in(info0) EXCEPT !.pos = BitField_set(@, i)]
               ELSE [info0 EXCEPT !.neg = BitField_set(@, i)]
      ok1   == hit => ~is_out(info0)
      there == contains(answer, c)
      info2 == IF there THEN set_in(info1) ELSE set_out(info1)
      ok2   == IF there THEN ~is_out(info1) ELSE ~is_in(info1)
  IN  [ g EXCEPT
          !.positions       = IF hit THEN [@ EXCEPT ![i] = c] ELSE @,
          !.position_mask   = IF hit THEN BitField_set(@, i) ELSE @,
          !.position_packed = IF hit THEN [@ EXCEPT ![i] = BitOr(@, byte(c))] ELSE @,
          !.chars           = [@ EXCEPT ![c] = info2],
          !.asserts_ok      = @ /\ ok1 /\ ok2 ]

RECURSIVE guess_positions(_, _, _, _)
guess_positions(g, answer, w, i) ==
  IF i = WordLen THEN g
  ELSE guess_positions(
         TheOne({ guess_position(gv, answer, w, i) : gv \in {g} }), answer, w, i + 1)

\* The second loop of Game::guess: deduce for every char of the guess.
RECURSIVE deduce_chars(_, _, _)
deduce_chars(g, w, i) ==
  IF i = WordLen THEN g
  ELSE deduce_chars(
         TheOne({ [gv EXCEPT !.chars = [@ EXCEPT ![At(w, i)] = deduce(@)]] : gv \in {g} }),
         w, i + 1)

guess(g, answer, w) ==
  deduce_chars(
    guess_positions([g EXCEPT !.guesses = @ + 1], answer, w, 0), w, 0)

\* ------------------------------------------------------------------ state
VARIABLES
  answer_words,    \* the answer word list
  guess_words,     \* the guess word list
  answer,          \* the ground truth of the game
  game,            \* the Game of the play in progress
  pc,              \* where the program is: "api", "first", "loop", "par",
                   \* "returned", "done" or "panic"
  possible_words,  \* best_guess's possible_words
  segs,            \* the parallel iterator of best_guess: the sequence, in guess
                   \* list order, of the pieces not yet reduced with a neighbour
  result           \* the word best_guess returned

vars == << answer_words, guess_words, answer, game, pc, possible_words, segs, result >>

\* possible_words of best_guess: the answer words that pass is_possible.
possible(g) == SelectSeq(answer_words, LAMBDA w : is_possible(g, w))

\* ------------------------------------------------------------------ search
\* The inner loops of best_guess's key closure: the number of possible words that
\* still pass is_possible after guess(game.clone(), a, w).
remaining(g, poss, a, w) ==
  TheOne({ Cardinality({ k \in 1 .. Len(poss) : is_possible(g2, poss[k]) }) :
             g2 \in { guess(g, a, w) } })

RECURSIVE max_answers(_, _, _, _, _)
max_answers(g, poss, w, k, max) ==
  IF k > Len(poss) THEN max
  ELSE max_answers(g, poss, w, k + 1,
         TheOne({ IF answers > m THEN answers ELSE m :
                    answers \in { remaining(g, poss, poss[k], w) }, m \in {max} }))

\* The key of min_by_key: the worst case of guess w over the possible answers.
score(g, poss, w) == max_answers(g, poss, w, 1, 0)

\* ------------------------------------------------------------------ Spec
\* A client of the library: Game::new, then Game::guess against a fixed answer.
Init ==
  /\ answer_words = Words
  /\ guess_words = Words
  /\ answer \in Range(Words)
  /\ game = new
  /\ pc = "api"
  /\ possible_words = << >>
  /\ segs = << >>
  /\ result = NoWord

Guess(w) ==
  /\ pc = "api"
  /\ game.guesses < MaxGuesses
  /\ game' = guess(game, answer, w)
  /\ UNCHANGED << answer_words, guess_words, answer, pc, possible_words, segs, result >>

Next == \E w \in Range(guess_words) : Guess(w)

Spec == Init /\ [][Next]_vars

\* ------------------------------------------------------------------ best_guess
\* A piece of the parallel iterator is a guess word not yet visited ("item"), or
\* the result of filter + map + reduce over a run of neighbouring words: no word
\* passed the filter ("none") or the least (key, word) pair of the run ("some").
\* The filter and the key closure read only game and possible_words, which nothing
\* writes during the search, so what they yield for a word is fixed when the search
\* starts: an item carries it (keep, key) and Visit is the step at which a worker
\* produces it.
Item(g, poss, w) ==
  [ st   |-> "item",
    keep |-> is_revealing(g, w),
    key  |-> IF is_revealing(g, w) THEN score(g, poss, w) ELSE 0,
    w    |-> w ]

Nothing == [st |-> "none", keep |-> FALSE, key |-> 0, w |-> NoWord]

Some(key, w) == [st |-> "some", keep |-> TRUE, key |-> key, w |-> w]

\* min_by_key's reduction operator: the right pair only if its key is smaller.
min_key_right_on_tie(a, b) == IF a.key >= b.key THEN b ELSE a

min_key(a, b) == IF a.key > b.key THEN b ELSE a

\* reduce_with over Option: an empty side yields the other side.
reduce_op(a, b) ==
  IF a.st = "none" THEN b
  ELSE IF b.st = "none" THEN a
  ELSE min_key(a, b)

\* The shortcut that never fires.
single_candidate_never(poss) == FALSE

\* possible_words.len() == 1
single_candidate(poss) == Len(poss) = 1

\* best_guess is entered: possible_words is collected; a single candidate is
\* returned at once, otherwise the guess words are handed to the workers.
BestGuessStart ==
  /\ pc = "loop"
  /\ possible_words' = possible(game)
  /\ IF single_candidate(possible_words')
     THEN /\ result' = possible_words'[1]
          /\ segs' = << >>
          /\ pc' = "returned"
     ELSE /\ segs' = [k \in 1 .. Len(guess_words) |->
                        Item(game, possible_words', guess_words[k])]
          /\ pc' = "par"
          /\ UNCHANGED result
  /\ UNCHANGED << answer_words, guess_words, answer, game >>

\* A worker visits one guess word: the filter, then the key closure.
Visit(k) ==
  /\ pc = "par"
  /\ segs[k].st = "item"
  /\ segs' = [segs EXCEPT ![k] =
                IF segs[k].keep THEN Some(segs[k].key, segs[k].w) ELSE Nothing]
  /\ UNCHANGED << answer_words, guess_words, answer, game, pc, possible_words, result >>

\* Two neighbouring results are reduced, the left one as the left argument.
Reduce(k) ==
  /\ pc = "par"
  /\ k < Len(segs)
  /\ segs[k].st # "item"
  /\ segs[k + 1].st # "item"
  /\ segs' = SubSeq(segs, 1, k - 1) \o << reduce_op(segs[k], segs[k + 1]) >>
               \o SubSeq(segs, k + 2, Len(segs))
  /\ UNCHANGED << answer_words, guess_words, answer, game, pc, possible_words, result >>

\* The reduction is complete: unwrap panics on None.
BestGuessReturn ==
  /\ pc = "par"
  /\ Len(segs) <= 1
  /\ \A k \in 1 .. Len(segs) : segs[k].st # "item"
  /\ IF Len(segs) = 1 /\ segs[1].st = "some"
     THEN /\ result' = segs[1].w
          /\ pc' = "returned"
     ELSE /\ pc' = "panic"
          /\ UNCHANGED result
  /\ segs' = << >>
  /\ UNCHANGED << answer_words, guess_words, answer, game, possible_words >>

BestGuess ==
  \/ BestGuessStart
  \/ \E k \in 1 .. Len(segs) : Visit(k)
  \/ \E k \in 1 .. Len(segs) : Reduce(k)
  \/ BestGuessReturn

\* The lines of the word files of the search and of the play.
PlayLines ==
  << <<"b","a","s","i","n">>,
     <<"b","a","s","i","c">>,
     <<"b","a","s","i","l">>,
     <<"t","r","a","c","e">>,
     <<"b","a","r","o","n">>,
     <<"c","a","r","e","t">>,
     <<"c","a","t","e","r">>,
     <<"t","r","a","c","t">> >>

FIRST_GUESS == <<"a","e","s","i","r">>

\* The guess word file, without and with the hardcoded first guess in it.
GuessFiles ==
  { SubSeq(PlayLines, 1, NumPlayWords),
    << FIRST_GUESS >> \o SubSeq(PlayLines, 1, NumPlayWords - 1) }

\* The answer word file: the first lines of PlayLines, all but two, all but one or
\* all of those read for the guess word file; or the first guess and all but two.
AnswerFiles ==
  { SubSeq(PlayLines, 1, n) : n \in (NumPlayWords - 2) .. NumPlayWords }
    \cup { << FIRST_GUESS >> \o SubSeq(PlayLines, 1, NumPlayWords - 2) }

\* ------------------------------------------------------------------ SpecSearch
\* A client of the library: Game::new, some calls of Game::guess against a fixed
\* answer (of either list), then best_guess.
InitSearch ==
  /\ answer_words \in { read_wordlist(f) : f \in AnswerFiles }
  /\ guess_words \in { read_wordlist(f) : f \in GuessFiles }
  /\ answer \in Range(answer_words) \cup Range(guess_words)
  /\ game = new
  /\ pc = "loop"
  /\ possible_words = << >>
  /\ segs = << >>
  /\ result = NoWord

GuessBeforeSearch(w) ==
  /\ pc = "loop"
  /\ game.guesses < MaxSearchGuesses
  /\ game' = guess(game, answer, w)
  /\ UNCHANGED << answer_words, guess_words, answer, pc, possible_words, segs, result >>

NextSearch ==
  \/ \E w \in Range(guess_words) : GuessBeforeSearch(w)
  \/ BestGuess

SpecSearch == InitSearch /\ [][NextSearch]_vars

\* ------------------------------------------------------------------ SpecPlay
\* play of main.rs (play_verbose is the same loop with printing).
InitPlay ==
  /\ answer_words \in { read_wordlist(f) : f \in AnswerFiles }
  /\ guess_words \in { read_wordlist(f) : f \in GuessFiles }
  /\ answer \in Range(answer_words) \cup Range(guess_words)
  /\ game = new
  /\ pc = "first"
  /\ possible_words = << >>
  /\ segs = << >>
  /\ result = NoWord

\* The for loop over guess_words: FIRST_GUESS is guessed if the list holds it.
FirstGuess ==
  /\ pc = "first"
  /\ IF FIRST_GUESS \in Range(guess_words)
     THEN /\ game' = guess(game, answer, FIRST_GUESS)
          /\ pc' = IF FIRST_GUESS = answer THEN "done" ELSE "loop"
     ELSE /\ pc' = "loop"
          /\ UNCHANGED game
  /\ UNCHANGED << answer_words, guess_words, answer, possible_words, segs, result >>

\* The rest of a round of the loop: the word best_guess returned is guessed, and
\* play returns if it is the answer.
GuessResult ==
  /\ pc = "returned"
  /\ game.guesses < MaxTurns
  /\ game' = guess(game, answer, result)
  /\ pc' = IF result = answer THEN "done" ELSE "loop"
  /\ UNCHANGED << answer_words, guess_words, answer, possible_words, segs, result >>

NextPlay ==
  \/ FirstGuess
  \/ BestGuess
  \/ GuessResult

\* The loop runs on until play returns or panics: nothing suspends it.
SpecPlay == InitPlay /\ [][NextPlay]_vars /\ WF_vars(NextPlay)

\* ------------------------------------------------------------------ claims (Spec)
crane == <<"c","r","a","n","e">>
trace == <<"t","r","a","c","e">>

\* The per-letter records and the per-position letters, without the turn counter.
knowledge(g) == << g.chars, g.positions >>

\* The words a state can be asked about: the two lists.
Universe == Range(answer_words) \cup Range(guess_words)

PossibleSet(g) == { x \in Range(answer_words) : is_possible(g, x) }

\* C2: a call of guess with an answer that passes is_possible never makes a word
\* possible that was not possible before the call.
C2_MonotonicNarrowing ==
  \A a \in PossibleSet(game) : \A w \in Range(guess_words) :
    \A g2 \in { guess(game, a, w) } : \A x \in Universe :
      is_possible(g2, x) => is_possible(game, x)

\* A state after two calls from which a further call removes a possible word.
C2_Witness ==
  /\ game.guesses >= 2
  /\ \E a \in PossibleSet(game) : \E w \in Range(guess_words) :
       \E g2 \in { guess(game, a, w) } :
         \E x \in PossibleSet(game) : ~is_possible(g2, x)

\* C3: after any calls of guess that all use the same answer, the answer passes
\* is_possible; in particular after guess(new, w, w).
C3_AnswerNeverEliminated ==
  /\ is_possible(game, answer)
  /\ \A g2 \in { guess(game, answer, answer), guess(new, answer, answer) } :
       is_possible(g2, answer)

\* A state after two calls in which a guess with a repeated letter has left the
\* letter present with two positions excluded.
C3_Witness ==
  /\ game.guesses >= 2
  /\ \E c \in Letters : is_in(game.chars[c]) /\ negs(game.chars[c]) >= 2
  /\ is_possible(game, answer)

\* What the scenario of C4 says of every letter but r, and of the positions but 1.
TraceScenarioRest(g) ==
  /\ g.chars["t"] = [neg |-> {0, 7}, pos |-> {}]
  /\ g.chars["a"] = [neg |-> {}, pos |-> {2, 7}]
  /\ g.chars["c"] = [neg |-> {3}, pos |-> {7}]
  /\ g.chars["e"] = [neg |-> {}, pos |-> {4, 7}]
  /\ \A c \in Letters \ {"t", "r", "a", "c", "e"} : g.chars[c] = UNKNOWN
  /\ \A i \in Positions \ {1} :
       g.positions[i] = (IF i = 2 THEN "a" ELSE IF i = 4 THEN "e" ELSE None)

\* C4 as stated: guess on the empty state with answer crane and guess trace yields
\* t excluded at 0 and out, r excluded at 1 and in, a confirmed at 2, c excluded
\* at 3 and in, e confirmed at 4, and nothing else.
C4_CraneTraceAsStated ==
  (answer = crane /\ game = new) =>
    \A g2 \in { guess(game, answer, trace) } :
      /\ TraceScenarioRest(g2)
      /\ g2.chars["r"] = [neg |-> {1}, pos |-> {7}]
      /\ g2.positions[1] = None

\* C4 amended: as stated, but r (which crane and trace both hold at position 1)
\* is confirmed at 1 and in, with no position excluded.
C4_CraneTrace ==
  (answer = crane /\ game = new) =>
    \A g2 \in { guess(game, answer, trace) } :
      /\ TraceScenarioRest(g2)
      /\ g2.chars["r"] = [neg |-> {}, pos |-> {1, 7}]
      /\ g2.positions[1] = "r"

\* The state after the call of the scenario.
C4_Witness ==
  /\ answer = crane
  /\ game.guesses = 1
  /\ TraceScenarioRest(game)
  /\ game.positions[1] = "r"

Exclusive(g) ==
  /\ g.asserts_ok
  /\ \A c \in Letters : ~(is_in(g.chars[c]) /\ is_out(g.chars[c]))

\* C5: in the game, and in every branch best_guess simulates from it with an answer
\* of the possible set, no letter is both in and out and no debug assertion of
\* set_in / set_out has failed.
C5_InOutExclusive ==
  /\ Exclusive(game)
  /\ \A a \in PossibleSet(game) : \A w \in Range(guess_words) :
       \A g2 \in { guess(game, a, w) } : Exclusive(g2)

\* A state with a letter in and a letter out, and a possible answer other than
\* the ground truth to simulate.
C5_Witness ==
  /\ game.guesses >= 1
  /\ \E c \in Letters : is_in(game.chars[c])
  /\ \E c \in Letters : is_out(game.chars[c])
  /\ \E a \in PossibleSet(game) : a # answer

\* C6: the letter kept for position i is c exactly when i is a confirmed position
\* of c.
C6_PositionsDenormalized ==
  \A i \in Positions : \A c \in Letters :
    (game.positions[i] = c) <=> BitField_get(game.chars[c].pos, i)

\* C7: a letter that is in and has exactly 4 excluded positions has the remaining
\* position confirmed, the answer holds the letter there, and no position is both
\* confirmed and excluded.
C7_DeductionHolds ==
  \A c \in Letters :
    LET info == game.chars[c] IN
      /\ (is_in(info) /\ negs(info) = 4) =>
           \A i \in Positions :
             ~BitField_get(info.neg, i) =>
               BitField_get(info.pos, i) /\ At(answer, i) = c
      /\ \A i \in Positions :
           ~(BitField_get(info.pos, i) /\ BitField_get(info.neg, i))

\* A state after a call in which a letter is in with 4 positions excluded.
C7_Witness ==
  /\ game.guesses >= 1
  /\ \E c \in Letters : is_in(game.chars[c]) /\ negs(game.chars[c]) = 4

\* C8 as stated: a guess that is not revealing, against a possible answer, leaves
\* every per-letter record and every per-position letter unchanged.
C8_NonRevealingChangesNothing ==
  \A w \in Range(guess_words) : \A a \in PossibleSet(game) :
    ~is_revealing(game, w) =>
      \A g2 \in { guess(game, a, w) } : knowledge(g2) = knowledge(game)

\* C8 amended: such a guess leaves in, out and the confirmed positions of every
\* letter unchanged, and the excluded positions of every letter that is not out (an
\* out letter may gain excluded positions); a per-position letter changes only from
\* none to the letter whose confirmed positions already hold that position; every
\* word passes is_possible after the call exactly when it did before; the turn
\* counter is one more.
C8_NonRevealingRefinesNothing ==
  \A w \in Range(guess_words) : \A a \in PossibleSet(game) :
    ~is_revealing(game, w) =>
      \A g2 \in { guess(game, a, w) } :
        /\ \A c \in Letters :
             /\ g2.chars[c].pos = game.chars[c].pos
             /\ is_out(g2.chars[c]) = is_out(game.chars[c])
             /\ game.chars[c].neg \subseteq g2.chars[c].neg
             /\ ~is_out(game.chars[c]) => g2.chars[c].neg = game.chars[c].neg
        /\ \A i \in Positions :
             g2.positions[i] # game.positions[i] =>
               /\ game.positions[i] = None
               /\ BitField_get(game.chars[g2.positions[i]].pos, i)
        /\ \A x \in Universe : is_possible(g2, x) = is_possible(game, x)
        /\ g2.guesses = game.guesses + 1

\* A state with a guess word that is not revealing and differs from every word
\* guessed so far in some out letter's position.
C8_Witness ==
  \E w \in Range(guess_words) : \E a \in PossibleSet(game) :
    /\ ~is_revealing(game, w)
    /\ \E g2 \in { guess(game, a, w) } : g2.chars # game.chars

MinOver(S) == CHOOSE m \in S : \A n \in S : m <= n

\* C10: with at least 2 possible words and a revealing guess, a guess that is not
\* revealing leaves all possible words possible against every possible answer, and
\* the least score over the revealing guesses is the least over all guesses.
C10_PruningLosesNothing ==
  LET poss == possible(game)
      G    == Range(guess_words)
      R    == { w \in G : is_revealing(game, w) }
  IN  (Len(poss) >= 2 /\ R # {}) =>
        /\ \A w \in G \ R :
             /\ \A k \in 1 .. Len(poss) : remaining(game, poss, poss[k], w) = Len(poss)
             /\ score(game, poss, w) = Len(poss)
        /\ MinOver({ score(game, poss, w) : w \in R })
             = MinOver({ score(game, poss, w) : w \in G })

\* A state with 2 possible words, a revealing guess and a guess the filter prunes.
C10_Witness ==
  /\ Len(possible(game)) >= 2
  /\ \E w \in Range(guess_words) : is_revealing(game, w)
  /\ \E w \in Range(guess_words) : ~is_revealing(game, w)

\* ------------------------------------------------------------------ claims (SpecSearch)
RevealingAt(g) == { k \in 1 .. Len(guess_words) : is_revealing(g, guess_words[k]) }

ScoreAt(g, k) == score(g, possible(g), guess_words[k])

\* The index of the first word, in guess list order, among the revealing guesses
\* of least score.
FirstLeast(g) ==
  CHOOSE k \in RevealingAt(g) :
    /\ \A j \in RevealingAt(g) : ScoreAt(g, k) <= ScoreAt(g, j)
    /\ \A j \in RevealingAt(g) : j < k => ScoreAt(g, j) > ScoreAt(g, k)

\* C1: when the possible set does not have exactly one element and some guess is
\* revealing, best_guess ends by returning the first word in guess list order among
\* the revealing guesses of least score, whatever the order in which the workers
\* visit the words and reduce their results.
C1_FirstLeastScore ==
  (pc \in {"returned", "panic"} /\ Len(possible(game)) # 1 /\ RevealingAt(game) # {}) =>
    /\ pc = "returned"
    /\ result = guess_words[FirstLeast(game)]

\* best_guess has returned from the parallel search, in which a later revealing
\* guess ties with the first one of least score.
C1_Witness ==
  /\ pc = "returned"
  /\ Len(possible(game)) > 1
  /\ \E j \in RevealingAt(game) :
       /\ j > FirstLeast(game)
       /\ ScoreAt(game, j) = ScoreAt(game, FirstLeast(game))
  /\ result = guess_words[FirstLeast(game)]

\* ------------------------------------------------------------------ claims (SpecPlay)
\* g2 knows all that g knows, and more.
StrictlyMore(g, g2) ==
  /\ \A c \in Letters :
       /\ g.chars[c].neg \subseteq g2.chars[c].neg
       /\ g.chars[c].pos \subseteq g2.chars[c].pos
  /\ \A i \in Positions : g.positions[i] # None => g2.positions[i] = g.positions[i]
  /\ knowledge(g2) # knowledge(g)

C9_Pre ==
  /\ answer \in Range(answer_words)
  /\ Range(answer_words) \subseteq Range(guess_words)

\* C9: when the answer is in the answer list and the answer list within the guess
\* list, the loop of play ends with best_guess returning the answer (unless the
\* forced first guess was the answer and the loop is never entered); no call of
\* best_guess panics; and every word best_guess returns that is not the answer adds
\* to what the state knows.
C9_PlayEndsAtAnswer ==
  C9_Pre =>
    /\ <>(pc = "done" /\ (result = answer \/ (FIRST_GUESS = answer /\ game.guesses = 1)))
    /\ [](pc # "panic")
    /\ []((pc = "returned" /\ result # answer) =>
            \A g2 \in { guess(game, answer, result) } : StrictlyMore(game, g2))

\* play has returned after 3 guesses or more, the last one the answer.
C9_Witness ==
  /\ C9_Pre
  /\ pc = "done"
  /\ result = answer
  /\ game.guesses >= 3

====
